---- MODULE Spec2Model ----
(***************************************************************************)
(* The scripted-interaction playback engine of the visual-chat simulation  *)
(* page (VisualChatSimulationPage, src/unnamed/part_003).                   *)
(*                                                                         *)
(* The page is a React function component.  Its state is the set of        *)
(* useState cells, the interval held by timerRef, the setTimeout callbacks *)
(* that are armed and not yet run, and the two gateway requests that may   *)
(* be outstanding.  One action models one event: a handler run by a click  *)
(* or key, the arrival of a gateway response, an interval tick, or an      *)
(* armed timeout running.  Every action is the handler followed by the     *)
(* render it causes and the effects (useEffect) whose dependencies changed.*)
(* A callback armed by setTimeout keeps the closure of the render that     *)
(* armed it: the indices it reads are the ones of that render, while its   *)
(* functional updates (prev => prev + 1) apply to the state at run time.   *)
(***************************************************************************)
EXTENDS Integers, Sequences, FiniteSets, TLC

\* ---------------------------------------------------------------- bounds
MaxTimeouts == 2      \* setTimeout callbacks armed and not yet run
MaxElapsed == 1       \* cap on elapsedTime (seconds counted)
MaxRequests == 2      \* gateway requests of one kind outstanding at once
MaxStarts == 2        \* times Start Simulation is pressed

\* ------------------------------------------------------ program constants
MIN_PASSING_SCORE == 85
MessageDelay == 800       \* customer message auto-advance, ms
CheckboxDelay == 800      \* checkbox advance, ms
SelectDelay == 500        \* dropdown advanceOnSelect, ms
SubmitDelay == 500        \* trainee message submit, ms
SuggestedDelay == 100     \* "Use Suggested Response", ms

\* ------------------------------------------------------- sequence items
Msg(role, text) ==
  [type |-> "message", role |-> role, hotspotType |-> "", timeoutDuration |-> 0,
   advanceOnSelect |-> FALSE, text |-> text]

\* hotspotType "" is an item without hotspotType (the code defaults it to "button")
Hot(kind, timeout, adv) ==
  [type |-> "hotspot", role |-> "", hotspotType |-> kind, timeoutDuration |-> timeout,
   advanceOnSelect |-> adv, text |-> ""]

NoItem ==
  [type |-> "none", role |-> "", hotspotType |-> "", timeoutDuration |-> 0,
   advanceOnSelect |-> FALSE, text |-> ""]

Customer == Msg("customer", "Hi")
Trainee == Msg("trainee", "script")
ButtonH == Hot("button", 0, FALSE)
ButtonT == Hot("", 2, FALSE)
DropdownAdv == Hot("dropdown", 0, TRUE)
DropdownNo == Hot("dropdown", 2, FALSE)
CheckboxT == Hot("checkbox", 2, FALSE)
TextFieldH == Hot("textfield", 0, FALSE)
TextFieldT == Hot("textfield", 2, FALSE)
HighlightH == Hot("highlight", 0, FALSE)
HighlightT == Hot("highlight", 2, FALSE)
CoachingH == Hot("coaching", 0, FALSE)
CoachingT == Hot("coachingtip", 2, FALSE)

\* The simulations the gateway may serve: slidesData as a sequence of slides,
\* each slide the sequence of its items.
Simulations ==
  { << <<Customer, Trainee>>, <<ButtonH>> >>,
    << <<CheckboxT, DropdownAdv>>, <<TextFieldH>> >>,
    << <<TextFieldT, HighlightT>>, <<CoachingH, DropdownNo, ButtonH>> >>,
    << <<HighlightH, ButtonT>>, <<Customer, CoachingT>> >>,
    << <<CoachingH, Customer>> >>,
    << >>,                 \* slidesData: []
    << << >> >> }          \* one slide whose sequence is []

Options == {"A"}                 \* dropdown options offered
Keys == {"Enter", "a"}           \* keys typed into a text-field hotspot
Inputs == {"", " ", "hi"}        \* texts typed into the chat input
\* What the scorer returns: the scores 'Sim Accuracy' and 'Confidence', in
\* thousandths (85000 is 85, 84999 is 84.999), and duration (0: no duration)
EndResults == { [SimAccuracy |-> 85000, Confidence |-> 0, duration |-> 0],
                [SimAccuracy |-> 84999, Confidence |-> 100000, duration |-> 1] }

VARIABLES
  userId,                  \* TRUE iff user?.id is a non-empty string
  sim,                     \* the simulation the gateway serves
  starts,                  \* times Start Simulation has been pressed
  startReqs,               \* start requests outstanding
  endReqs,                 \* end requests outstanding, each with its closure
  \* the useState cells of the component (isStarting is set by handleStart and
  \* read by the Start button; it starts false like the other flags)
  isStarted, isStarting, isEndingChat, simulationProgressId,
  showCompletionScreen, scores, duration, elapsedTime, isPaused, callStatus,
  simulationData, slides, currentSlideIndex, currentSequenceIndex,
  imageLoaded, isProcessing, isLoadingVisuals,
  highlightHotspot, dropdownOpen, dropdownValue, checkboxChecked,
  textInputValue, showCoachingTip,
  userInput, waitingForUserInput, expectedTraineeResponse, currentMessage,
  console,                 \* the last line moveToNextItem wrote to the console
  intervals,               \* live setInterval callbacks, each with its closure
  timerRef,                \* timerRef.current: index into intervals, 0 = null
  timeouts                 \* armed setTimeout callbacks, in arming order

env == <<userId, sim, starts, startReqs, endReqs>>

comp ==
  <<isStarted, isStarting, isEndingChat, simulationProgressId,
    showCompletionScreen, scores, duration, elapsedTime, isPaused, callStatus,
    simulationData, slides, currentSlideIndex, currentSequenceIndex,
    imageLoaded, isProcessing, isLoadingVisuals,
    highlightHotspot, dropdownOpen, dropdownValue, checkboxChecked,
    textInputValue, showCoachingTip,
    userInput, waitingForUserInput, expectedTraineeResponse, currentMessage,
    console, intervals, timerRef, timeouts>>

vars == <<env, comp>>

\* scores is null (set FALSE) or the scores object of the end response.
NoScores == [set |-> FALSE, SimAccuracy |-> 0, Confidence |-> 0]

\* isPassed judged on another score than 'Sim Accuracy'.
isPassedOnConfidence(s) ==
  IF s.set THEN s.Confidence >= MIN_PASSING_SCORE * 1000 ELSE FALSE

\* const isPassed = scores ? scores['Sim Accuracy'] >= MIN_PASSING_SCORE : false
isPassedOf(s) ==
  IF s.set THEN s.SimAccuracy >= MIN_PASSING_SCORE * 1000 ELSE FALSE

isPassed == isPassedOf(scores)

\* The component's state as one record (a render's snapshot).
Cur ==
  [isStarted |-> isStarted, isStarting |-> isStarting, isEndingChat |-> isEndingChat,
   simulationProgressId |-> simulationProgressId,
   showCompletionScreen |-> showCompletionScreen, scores |-> scores,
   duration |-> duration, elapsedTime |-> elapsedTime, isPaused |-> isPaused,
   callStatus |-> callStatus, simulationData |-> simulationData, slides |-> slides,
   currentSlideIndex |-> currentSlideIndex,
   currentSequenceIndex |-> currentSequenceIndex,
   imageLoaded |-> imageLoaded, isProcessing |-> isProcessing,
   isLoadingVisuals |-> isLoadingVisuals,
   highlightHotspot |-> highlightHotspot, dropdownOpen |-> dropdownOpen,
   dropdownValue |-> dropdownValue, checkboxChecked |-> checkboxChecked,
   textInputValue |-> textInputValue, showCoachingTip |-> showCoachingTip,
   userInput |-> userInput, waitingForUserInput |-> waitingForUserInput,
   expectedTraineeResponse |-> expectedTraineeResponse,
   currentMessage |-> currentMessage, console |-> console,
   intervals |-> intervals, timerRef |-> timerRef, timeouts |-> timeouts]

Apply(n) ==
  /\ isStarted' = n.isStarted
  /\ isStarting' = n.isStarting
  /\ isEndingChat' = n.isEndingChat
  /\ simulationProgressId' = n.simulationProgressId
  /\ showCompletionScreen' = n.showCompletionScreen
  /\ scores' = n.scores
  /\ duration' = n.duration
  /\ elapsedTime' = n.elapsedTime
  /\ isPaused' = n.isPaused
  /\ callStatus' = n.callStatus
  /\ simulationData' = n.simulationData
  /\ slides' = n.slides
  /\ currentSlideIndex' = n.currentSlideIndex
  /\ currentSequenceIndex' = n.currentSequenceIndex
  /\ imageLoaded' = n.imageLoaded
  /\ isProcessing' = n.isProcessing
  /\ isLoadingVisuals' = n.isLoadingVisuals
  /\ highlightHotspot' = n.highlightHotspot
  /\ dropdownOpen' = n.dropdownOpen
  /\ dropdownValue' = n.dropdownValue
  /\ checkboxChecked' = n.checkboxChecked
  /\ textInputValue' = n.textInputValue
  /\ showCoachingTip' = n.showCoachingTip
  /\ userInput' = n.userInput
  /\ waitingForUserInput' = n.waitingForUserInput
  /\ expectedTraineeResponse' = n.expectedTraineeResponse
  /\ currentMessage' = n.currentMessage
  /\ console' = n.console
  /\ intervals' = n.intervals
  /\ timerRef' = n.timerRef
  /\ timeouts' = n.timeouts

RemoveAt(q, i) == SubSeq(q, 1, i - 1) \o SubSeq(q, i + 1, Len(q))

\* ------------------------------------------- current slide, sequence, item
\* dataLoaded: simulationData is not null; indices are 0-based as in the code.
slidesDataOf(dataLoaded) == IF dataLoaded THEN sim ELSE <<>>

currentSequenceOf(dataLoaded, slideIndex) ==
  IF slideIndex < Len(slidesDataOf(dataLoaded))
  THEN slidesDataOf(dataLoaded)[slideIndex + 1]
  ELSE <<>>

hasItemAt(dataLoaded, slideIndex, sequenceIndex) ==
  sequenceIndex < Len(currentSequenceOf(dataLoaded, slideIndex))

itemAt(dataLoaded, slideIndex, sequenceIndex) ==
  IF hasItemAt(dataLoaded, slideIndex, sequenceIndex)
  THEN currentSequenceOf(dataLoaded, slideIndex)[sequenceIndex + 1]
  ELSE NoItem

currentItemOf(s) == itemAt(s.simulationData, s.currentSlideIndex, s.currentSequenceIndex)

hotspotTypeOf(item) == IF item.hotspotType = "" THEN "button" ELSE item.hotspotType

\* userInput.trim(): the texts of Inputs with whitespace removed at both ends
trim(text) == IF text = " " THEN "" ELSE text

\* ------------------------------------------------------------- closures
\* What a callback armed in render s keeps of that render.
Closure(s, kind, delay) ==
  [kind |-> kind, delay |-> delay,
   slide |-> s.currentSlideIndex, seq |-> s.currentSequenceIndex,
   data |-> s.simulationData,
   input |-> IF kind = "suggested" THEN s.userInput ELSE "",
   waiting |-> IF kind = "suggested" THEN s.waitingForUserInput ELSE FALSE]

\* Timeouts run in order of expiry: a callback armed later runs before one armed
\* earlier only if its delay is strictly shorter.
CanRun(q, i) == \A j \in 1..(i - 1) : q[j].delay > q[i].delay

\* ------------------------------------------------------- moveToNextItem
\* moveToNextItem with a wrap-around at the end of the slide list.
moveToNextItemWrap(s, c) ==
  IF c.seq < Len(currentSequenceOf(c.data, c.slide)) - 1
  THEN [s EXCEPT !.currentSequenceIndex = @ + 1]
  ELSE IF c.slide < Len(slidesDataOf(c.data)) - 1
       THEN [s EXCEPT !.currentSlideIndex = @ + 1,
                      !.currentSequenceIndex = 0,
                      !.imageLoaded = FALSE]
       ELSE [s EXCEPT !.currentSlideIndex = 0,
                      !.currentSequenceIndex = 0,
                      !.highlightHotspot = FALSE]

\* moveToNextItem that restarts the item index without moving to the next slide.
moveToNextItemSameSlide(s, c) ==
  IF c.seq < Len(currentSequenceOf(c.data, c.slide)) - 1
  THEN [s EXCEPT !.currentSequenceIndex = @ + 1]
  ELSE IF c.slide < Len(slidesDataOf(c.data)) - 1
       THEN [s EXCEPT !.currentSequenceIndex = 0,
                      !.imageLoaded = FALSE]
       ELSE [s EXCEPT !.highlightHotspot = FALSE]

\* moveToNextItem that shows the completion screen at the end of content.
moveToNextItemCompletes(s, c) ==
  IF c.seq < Len(currentSequenceOf(c.data, c.slide)) - 1
  THEN [s EXCEPT !.currentSequenceIndex = @ + 1,
                 !.console = "Moving to next item"]
  ELSE IF c.slide < Len(slidesDataOf(c.data)) - 1
       THEN [s EXCEPT !.currentSlideIndex = @ + 1,
                      !.currentSequenceIndex = 0,
                      !.console = "Moving to next slide",
                      !.imageLoaded = FALSE]
       ELSE [s EXCEPT !.highlightHotspot = FALSE,
                      !.console = "Simulation complete",
                      !.showCompletionScreen = TRUE]

\* c is the closure of the render whose moveToNextItem is called: the two
\* comparisons read that render's indices and lengths, the updates are
\* functional (prev => prev + 1) and apply to the state s at run time.
moveToNextItem(s, c) ==
  IF c.seq < Len(currentSequenceOf(c.data, c.slide)) - 1
  THEN [s EXCEPT !.currentSequenceIndex = @ + 1,
                 !.console = "Moving to next item"]
  ELSE IF c.slide < Len(slidesDataOf(c.data)) - 1
       THEN [s EXCEPT !.currentSlideIndex = @ + 1,
                      !.currentSequenceIndex = 0,
                      !.console = "Moving to next slide",
                      !.imageLoaded = FALSE]
       ELSE [s EXCEPT !.highlightHotspot = FALSE,
                      !.console = "Simulation complete"]

\* -------------------------------------------------------------- effects
\* TimerEffect whose cleanup leaves the previous interval running.
TimerEffectNoCleanup(o, r, n) ==
  IF o.isPaused # r.isPaused \/ o.isStarted # r.isStarted
  THEN LET installed == Append(n.intervals, [isPaused |-> r.isPaused,
                                             isStarted |-> r.isStarted])
       IN [n EXCEPT !.intervals = installed, !.timerRef = Len(installed)]
  ELSE n

\* useEffect(..., [isPaused, isStarted]): the cleanup clears timerRef.current,
\* the body installs a new interval whose callback reads this render's flags.
TimerEffect(o, r, n) ==
  IF o.isPaused # r.isPaused \/ o.isStarted # r.isStarted
  THEN LET cleared == IF n.timerRef # 0 THEN RemoveAt(n.intervals, n.timerRef)
                      ELSE n.intervals
           installed == Append(cleared, [isPaused |-> r.isPaused,
                                         isStarted |-> r.isStarted])
       IN [n EXCEPT !.intervals = installed, !.timerRef = Len(installed)]
  ELSE n

isCoachingTip(item) ==
  item.type = "hotspot" /\ item.hotspotType \in {"coaching", "coachingtip"}

\* ResetEffect that keeps the dropdown's selected value.
ResetEffectKeepsValue(o, r, n) ==
  IF o.currentSequenceIndex # r.currentSequenceIndex
     \/ o.currentSlideIndex # r.currentSlideIndex
  THEN [n EXCEPT !.dropdownOpen = FALSE,
                 !.checkboxChecked = FALSE,
                 !.textInputValue = "",
                 !.showCoachingTip = isCoachingTip(currentItemOf(r)),
                 !.highlightHotspot = FALSE,
                 !.waitingForUserInput = FALSE,
                 !.expectedTraineeResponse = ""]
  ELSE n

\* useEffect(..., [currentSequenceIndex, currentSlideIndex]): reset the
\* per-item interaction state.
ResetEffect(o, r, n) ==
  IF o.currentSequenceIndex # r.currentSequenceIndex
     \/ o.currentSlideIndex # r.currentSlideIndex
  THEN [n EXCEPT !.dropdownOpen = FALSE,
                 !.dropdownValue = "",
                 !.checkboxChecked = FALSE,
                 !.textInputValue = "",
                 !.showCoachingTip = isCoachingTip(currentItemOf(r)),
                 !.highlightHotspot = FALSE,
                 !.waitingForUserInput = FALSE,
                 !.expectedTraineeResponse = ""]
  ELSE n

\* timeoutEligible without the exception for button, dropdown and checkbox.
timeoutEligibleAnyKind(item) ==
  item.timeoutDuration > 0

\* The hotspot kinds a configured timeout may advance.
timeoutEligible(item) ==
  /\ item.timeoutDuration > 0
  /\ hotspotTypeOf(item) # "button"
  /\ hotspotTypeOf(item) # "dropdown"
  /\ hotspotTypeOf(item) # "checkbox"

\* processItem with the role test always true: every message is handled as
\* a customer message.
processItemAnyRole(r, n) ==
  LET item == currentItemOf(r) IN
  IF item.type = "message"
  THEN [n EXCEPT !.isProcessing = TRUE,
                 !.currentMessage = "customer",
                 !.timeouts = Append(@, Closure(r, "message", MessageDelay))]
  ELSE IF item.type = "hotspot"
       THEN IF timeoutEligible(item)
            THEN [n EXCEPT !.isProcessing = TRUE,
                           !.highlightHotspot = TRUE,
                           !.timeouts = Append(@, Closure(r, "hotspotTimeout",
                                                  item.timeoutDuration * 1000))]
            ELSE [n EXCEPT !.highlightHotspot = TRUE, !.isProcessing = FALSE]
       ELSE [n EXCEPT !.isProcessing = FALSE]

\* processItem() of render r, its updates applied to n.  (The 100 ms callback
\* that focuses the chat input changes no state and is left out.)
processItem(r, n) ==
  LET item == currentItemOf(r) IN
  IF item.type = "message"
  THEN IF item.role \in {"Customer", "customer"}
       THEN [n EXCEPT !.isProcessing = TRUE,
                      !.currentMessage = "customer",
                      !.timeouts = Append(@, Closure(r, "message", MessageDelay))]
       ELSE [n EXCEPT !.waitingForUserInput = TRUE,
                      !.expectedTraineeResponse = item.text,
                      !.isProcessing = FALSE]
  ELSE IF item.type = "hotspot"
       THEN IF timeoutEligible(item)
            THEN [n EXCEPT !.isProcessing = TRUE,
                           !.highlightHotspot = TRUE,
                           !.timeouts = Append(@, Closure(r, "hotspotTimeout",
                                                  item.timeoutDuration * 1000))]
            ELSE [n EXCEPT !.highlightHotspot = TRUE, !.isProcessing = FALSE]
       ELSE [n EXCEPT !.isProcessing = FALSE]

\* useEffect(..., [currentItem, currentSequenceIndex, currentSlideIndex,
\* imageLoaded, isPaused, isProcessing, isStarted]).  newData: the render has
\* a new simulationData object, so currentItem is a new object.
ProcessEffect(o, r, n, newData) ==
  LET changed == \/ newData /\ currentItemOf(r) # NoItem
                 \/ currentItemOf(o) # currentItemOf(r)
                 \/ o.currentSequenceIndex # r.currentSequenceIndex
                 \/ o.currentSlideIndex # r.currentSlideIndex
                 \/ o.imageLoaded # r.imageLoaded
                 \/ o.isPaused # r.isPaused
                 \/ o.isProcessing # r.isProcessing
                 \/ o.isStarted # r.isStarted
      skip == \/ currentItemOf(r) = NoItem
              \/ r.isProcessing
              \/ ~r.imageLoaded
              \/ r.isPaused
              \/ ~r.isStarted
  IN IF changed /\ ~skip THEN processItem(r, n) ELSE n

\* The render of r after state o, and the effects it runs, in source order.
Commit(o, r, newData) ==
  ProcessEffect(o, r, ResetEffect(o, r, TimerEffect(o, r, r)), newData)

\* One event: the handler has turned the rendered state Cur into r.
Step(r, newData) ==
  LET n == Commit(Cur, r, newData) IN
    /\ Len(n.timeouts) <= MaxTimeouts
    /\ n.elapsedTime <= MaxElapsed
    /\ Apply(n)

\* ------------------------------------------------------------------ Init
\* The state after the first render and its effects: the timer effect has
\* installed its interval, the other two effects find no current item.
Init ==
  /\ userId \in BOOLEAN
  /\ sim \in Simulations
  /\ starts = 0
  /\ startReqs = 0
  /\ endReqs = <<>>
  /\ isStarted = FALSE /\ isStarting = FALSE /\ isEndingChat = FALSE
  /\ simulationProgressId = FALSE
  /\ showCompletionScreen = FALSE
  /\ scores = NoScores
  /\ duration = 0
  /\ elapsedTime = 0
  /\ isPaused = FALSE
  /\ callStatus = "Online"
  /\ simulationData = FALSE
  /\ slides = {}
  /\ currentSlideIndex = 0 /\ currentSequenceIndex = 0
  /\ imageLoaded = FALSE /\ isProcessing = FALSE /\ isLoadingVisuals = FALSE
  /\ highlightHotspot = FALSE /\ dropdownOpen = FALSE /\ dropdownValue = ""
  /\ checkboxChecked = FALSE /\ textInputValue = "" /\ showCoachingTip = FALSE
  /\ userInput = "" /\ waitingForUserInput = FALSE
  /\ expectedTraineeResponse = "" /\ currentMessage = ""
  /\ console = ""
  /\ intervals = << [isPaused |-> FALSE, isStarted |-> FALSE] >>
  /\ timerRef = 1
  /\ timeouts = <<>>

\* ------------------------------------------------------ what is rendered
\* if (showCompletionScreen) return <completion screen>; then the start
\* screen unless isStarted, else the main screen.
startShown == ~showCompletionScreen /\ ~isStarted
mainShown == ~showCompletionScreen /\ isStarted

\* <Modal open={isPaused && isStarted}>: the pause overlay covers the main
\* screen, whose controls then receive no click or key.
pauseOverlay == isPaused /\ isStarted

\* The <img> of the current slide is rendered.
imgShown ==
  /\ mainShown
  /\ ~isLoadingVisuals
  /\ currentSlideIndex < Len(slidesDataOf(simulationData))
  /\ currentSlideIndex \in slides

\* The hotspot of the current item is rendered and can be reached.
hotspotShown ==
  /\ imgShown
  /\ imageLoaded
  /\ currentItemOf(Cur).type = "hotspot"
  /\ ~pauseOverlay

\* The chat input accepts typing: rendered, not disabled, not covered.
chatInputEnabled ==
  /\ mainShown
  /\ ~pauseOverlay
  /\ waitingForUserInput
  /\ ~isEndingChat

\* ---------------------------------------------------------------- status
\* The status of the playback state, read off the component's flags in the
\* order the render tests them.
Status ==
  IF showCompletionScreen THEN "Completed"
  ELSE IF ~isStarted
       THEN IF callStatus = "Error" THEN "Errored" ELSE "NotStarted"
       ELSE IF isLoadingVisuals THEN "Loading"
            ELSE IF isPaused THEN "Paused" ELSE "Playing"

\* --------------------------------------------------------------- actions
\* Start Simulation button (disabled={isStarting || !userId}): handleStart up
\* to its await.
handleStart ==
  /\ startShown /\ ~isStarting /\ userId
  /\ starts < MaxStarts
  /\ startReqs < MaxRequests
  /\ starts' = starts + 1
  /\ startReqs' = startReqs + 1
  /\ UNCHANGED <<userId, sim, endReqs>>
  /\ Step([Cur EXCEPT !.isStarting = TRUE,
                      !.isLoadingVisuals = TRUE,
                      !.isStarted = TRUE,
                      !.callStatus = "Loading"], FALSE)

\* The start request fails: catch and finally of handleStart.
startFailed ==
  /\ startReqs > 0
  /\ startReqs' = startReqs - 1
  /\ UNCHANGED <<userId, sim, starts, endReqs>>
  /\ Step([Cur EXCEPT !.isStarted = FALSE,
                      !.callStatus = "Error",
                      !.isStarting = FALSE,
                      !.isLoadingVisuals = FALSE], FALSE)

\* The start response arrives, with or without a simulation and images.
startSucceeded ==
  \E withSimulation \in BOOLEAN, withImages \in BOOLEAN :
    /\ startReqs > 0
    /\ startReqs' = startReqs - 1
    /\ UNCHANGED <<userId, sim, starts, endReqs>>
    /\ LET a == IF withSimulation
                THEN [Cur EXCEPT !.simulationData = TRUE,
                                 !.simulationProgressId = TRUE,
                                 !.callStatus = "Online"]
                ELSE Cur
           b == IF withImages
                THEN [a EXCEPT !.slides = 0..(Len(sim) - 1)]
                ELSE a
       IN Step([b EXCEPT !.isStarting = FALSE, !.isLoadingVisuals = FALSE],
               withSimulation)

\* handleEndChat without its isEndingChat test.
handleEndChatUnguarded ==
  /\ mainShown /\ ~pauseOverlay
  /\ UNCHANGED <<userId, sim, starts, startReqs>>
  /\ Len(endReqs) < MaxRequests
  /\ endReqs' = Append(endReqs, [elapsedTime |-> elapsedTime])
  /\ Step([Cur EXCEPT !.isEndingChat = TRUE, !.isStarted = FALSE], FALSE)

\* End Simulation button: handleEndChat up to its await.
handleEndChat ==
  /\ mainShown /\ ~pauseOverlay
  /\ UNCHANGED <<userId, sim, starts, startReqs>>
  /\ IF isEndingChat \/ ~userId
     THEN UNCHANGED <<endReqs, comp>>
     ELSE LET stopped == IF timerRef # 0
                         THEN [Cur EXCEPT !.intervals = RemoveAt(@, timerRef),
                                          !.timerRef = 0]
                         ELSE Cur
          IN IF ~simulationProgressId
             THEN /\ UNCHANGED endReqs
                  /\ Step([stopped EXCEPT !.isStarted = FALSE], FALSE)
             ELSE /\ Len(endReqs) < MaxRequests
                  /\ endReqs' = Append(endReqs, [elapsedTime |-> elapsedTime])
                  /\ Step([stopped EXCEPT !.isEndingChat = TRUE,
                                          !.isStarted = FALSE], FALSE)

\* The end request fails: catch and finally of handleEndChat.
endFailed ==
  /\ endReqs # <<>>
  /\ endReqs' = Tail(endReqs)
  /\ UNCHANGED <<userId, sim, starts, startReqs>>
  /\ Step([Cur EXCEPT !.isEndingChat = FALSE], FALSE)

\* The end response arrives, with scores or without.
endSucceeded ==
  /\ endReqs # <<>>
  /\ endReqs' = Tail(endReqs)
  /\ UNCHANGED <<userId, sim, starts, startReqs>>
  /\ \/ \E data \in EndResults :
          Step([Cur EXCEPT !.scores = [set |-> TRUE,
                                       SimAccuracy |-> data.SimAccuracy,
                                       Confidence |-> data.Confidence],
                           !.duration = IF data.duration # 0 THEN data.duration
                                        ELSE Head(endReqs).elapsedTime,
                           !.showCompletionScreen = TRUE,
                           !.isEndingChat = FALSE], FALSE)
     \/ Step([Cur EXCEPT !.isEndingChat = FALSE], FALSE)

\* Restart button of the completion screen.
handleRestartSim ==
  /\ showCompletionScreen
  /\ UNCHANGED env
  /\ Step([Cur EXCEPT !.showCompletionScreen = FALSE,
                      !.isStarted = FALSE,
                      !.elapsedTime = 0,
                      !.scores = NoScores,
                      !.currentSlideIndex = 0,
                      !.currentSequenceIndex = 0,
                      !.imageLoaded = FALSE,
                      !.currentMessage = ""], FALSE)

\* View Playback button of the completion screen.
handleViewPlayback ==
  /\ showCompletionScreen
  /\ UNCHANGED env
  /\ Step([Cur EXCEPT !.showCompletionScreen = FALSE], FALSE)

\* Pause button of the main screen, or the pause overlay's resume.
togglePause ==
  /\ mainShown
  /\ UNCHANGED env
  /\ Step([Cur EXCEPT !.isPaused = ~isPaused], FALSE)

\* onLoad of the slide image.
handleImageLoad ==
  /\ imgShown /\ ~imageLoaded
  /\ UNCHANGED env
  /\ Step([Cur EXCEPT !.imageLoaded = TRUE], FALSE)

\* handleHotspotClick whose dropdown case also advances.
handleHotspotClickDropdownAdvances ==
  LET item == currentItemOf(Cur)
      kind == hotspotTypeOf(item)
  IN
  /\ hotspotShown
  /\ kind \in {"button", "dropdown", "checkbox", "highlight", "coaching", "coachingtip"}
  /\ UNCHANGED env
  /\ IF ~isStarted \/ item.type # "hotspot" \/ isProcessing \/ isPaused
     THEN UNCHANGED comp
     ELSE IF kind \in {"button", "highlight"}
          THEN Step(moveToNextItem([Cur EXCEPT !.highlightHotspot = FALSE],
                                   Closure(Cur, "click", 0)), FALSE)
          ELSE IF kind = "dropdown"
               THEN Step(moveToNextItem([Cur EXCEPT !.dropdownOpen = ~dropdownOpen],
                                        Closure(Cur, "click", 0)), FALSE)
               ELSE IF kind = "checkbox"
                    THEN Step([Cur EXCEPT !.checkboxChecked = TRUE,
                                          !.timeouts = Append(@,
                                             Closure(Cur, "checkbox", CheckboxDelay))],
                              FALSE)
                    ELSE Step(moveToNextItem([Cur EXCEPT !.showCoachingTip = FALSE],
                                             Closure(Cur, "click", 0)), FALSE)

\* Click on the rendered hotspot (button, dropdown, checkbox, highlight or
\* coaching tip; the text field has no onClick).
handleHotspotClick ==
  LET item == currentItemOf(Cur)
      kind == hotspotTypeOf(item)
  IN
  /\ hotspotShown
  /\ kind \in {"button", "dropdown", "checkbox", "highlight", "coaching", "coachingtip"}
  /\ UNCHANGED env
  /\ IF ~isStarted \/ item.type # "hotspot" \/ isProcessing \/ isPaused
     THEN UNCHANGED comp
     ELSE IF kind \in {"button", "highlight"}
          THEN Step(moveToNextItem([Cur EXCEPT !.highlightHotspot = FALSE],
                                   Closure(Cur, "click", 0)), FALSE)
          ELSE IF kind = "dropdown"
               THEN Step([Cur EXCEPT !.dropdownOpen = ~dropdownOpen], FALSE)
               ELSE IF kind = "checkbox"
                    THEN Step([Cur EXCEPT !.checkboxChecked = TRUE,
                                          !.timeouts = Append(@,
                                             Closure(Cur, "checkbox", CheckboxDelay))],
                              FALSE)
                    ELSE Step(moveToNextItem([Cur EXCEPT !.showCoachingTip = FALSE],
                                             Closure(Cur, "click", 0)), FALSE)

\* handleDropdownSelect that arms the advance whatever advanceOnSelect is.
handleDropdownSelectAlways ==
  \E option \in Options :
    /\ hotspotShown
    /\ hotspotTypeOf(currentItemOf(Cur)) = "dropdown"
    /\ dropdownOpen
    /\ UNCHANGED env
    /\ Step([Cur EXCEPT !.dropdownValue = option,
                        !.dropdownOpen = FALSE,
                        !.timeouts = Append(@, Closure(Cur, "dropdown", SelectDelay))],
            FALSE)

\* Click on an option of the open dropdown.
handleDropdownSelect ==
  \E option \in Options :
    /\ hotspotShown
    /\ hotspotTypeOf(currentItemOf(Cur)) = "dropdown"
    /\ dropdownOpen
    /\ UNCHANGED env
    /\ LET a == [Cur EXCEPT !.dropdownValue = option, !.dropdownOpen = FALSE]
       IN IF currentItemOf(Cur).advanceOnSelect
          THEN Step([a EXCEPT !.timeouts = Append(@,
                                 Closure(Cur, "dropdown", SelectDelay))], FALSE)
          ELSE Step(a, FALSE)

\* onClose of the open dropdown (a click outside its menu).
closeDropdown ==
  /\ hotspotShown
  /\ hotspotTypeOf(currentItemOf(Cur)) = "dropdown"
  /\ dropdownOpen
  /\ UNCHANGED env
  /\ Step([Cur EXCEPT !.dropdownOpen = FALSE], FALSE)

\* onChange of the text-field hotspot.
changeTextInput ==
  \E text \in {"", "x"} :
    /\ hotspotShown
    /\ hotspotTypeOf(currentItemOf(Cur)) = "textfield"
    /\ UNCHANGED env
    /\ Step([Cur EXCEPT !.textInputValue = text], FALSE)

\* handleTextInputSubmit that ignores Enter in an empty field.
handleTextInputSubmitNonEmpty ==
  \E key \in Keys :
    /\ hotspotShown
    /\ hotspotTypeOf(currentItemOf(Cur)) = "textfield"
    /\ UNCHANGED env
    /\ IF key = "Enter" /\ textInputValue # ""
       THEN Step(moveToNextItem(Cur, Closure(Cur, "key", 0)), FALSE)
       ELSE UNCHANGED comp

\* onKeyDown of the text-field hotspot.
handleTextInputSubmit ==
  \E key \in Keys :
    /\ hotspotShown
    /\ hotspotTypeOf(currentItemOf(Cur)) = "textfield"
    /\ UNCHANGED env
    /\ IF key = "Enter"
       THEN Step(moveToNextItem(Cur, Closure(Cur, "key", 0)), FALSE)
       ELSE UNCHANGED comp

\* onChange of the chat input.
changeUserInput ==
  \E text \in Inputs :
    /\ chatInputEnabled
    /\ UNCHANGED env
    /\ Step([Cur EXCEPT !.userInput = text], FALSE)

\* handleSubmitMessage of the render with closure c (its userInput and
\* waitingForUserInput), its updates applied to s.
submitMessage(s, c) ==
  IF trim(c.input) = "" \/ ~c.waiting
  THEN s
  ELSE [s EXCEPT !.currentMessage = "trainee",
                 !.userInput = "",
                 !.waitingForUserInput = FALSE,
                 !.expectedTraineeResponse = "",
                 !.timeouts = Append(@, [c EXCEPT !.kind = "submit",
                                                  !.delay = SubmitDelay,
                                                  !.input = "",
                                                  !.waiting = FALSE])]

\* Enter in the chat input, or its send button.
handleSubmitMessage ==
  /\ chatInputEnabled
  /\ UNCHANGED env
  /\ Step(submitMessage(Cur, [Closure(Cur, "submit", 0)
                                EXCEPT !.input = userInput,
                                       !.waiting = waitingForUserInput]), FALSE)

\* Use Suggested Response button: fills the input and arms a submit that
\* runs this render's handleSubmitMessage.
useSuggestedResponse ==
  /\ mainShown /\ ~pauseOverlay /\ waitingForUserInput
  /\ UNCHANGED env
  /\ Step([Cur EXCEPT !.userInput = expectedTraineeResponse,
                      !.timeouts = Append(@, Closure(Cur, "suggested",
                                                     SuggestedDelay))], FALSE)

\* The interval callback runs: it counts a second if its render was started
\* and not paused.
tick ==
  \E i \in 1..Len(intervals) :
    /\ UNCHANGED env
    /\ IF ~intervals[i].isPaused /\ intervals[i].isStarted
       THEN Step([Cur EXCEPT !.elapsedTime = @ + 1], FALSE)
       ELSE UNCHANGED comp

\* What the armed callback c does when it runs in state s.
runCallback(s, c) ==
  IF c.kind = "message"
  THEN [moveToNextItem(s, c) EXCEPT !.isProcessing = FALSE]
  ELSE IF c.kind = "hotspotTimeout"
       THEN [moveToNextItem(s, c) EXCEPT !.highlightHotspot = FALSE,
                                         !.isProcessing = FALSE]
       ELSE IF c.kind = "checkbox"
            THEN [moveToNextItem(s, c) EXCEPT !.checkboxChecked = FALSE]
            ELSE IF c.kind = "suggested"
                 THEN submitMessage(s, c)
                 ELSE moveToNextItem(s, c)

\* The i-th armed setTimeout callback runs.
runTimeout(i) ==
  /\ CanRun(timeouts, i)
  /\ UNCHANGED env
  /\ Step(runCallback([Cur EXCEPT !.timeouts = RemoveAt(@, i)], timeouts[i]),
          FALSE)

timeout == \E i \in 1..Len(timeouts) : runTimeout(i)

Next ==
  \/ handleStart
  \/ startFailed
  \/ startSucceeded
  \/ handleEndChat
  \/ endFailed
  \/ endSucceeded
  \/ handleRestartSim
  \/ handleViewPlayback
  \/ togglePause
  \/ handleImageLoad
  \/ handleHotspotClick
  \/ handleDropdownSelect
  \/ closeDropdown
  \/ changeTextInput
  \/ handleTextInputSubmit
  \/ changeUserInput
  \/ handleSubmitMessage
  \/ useSuggestedResponse
  \/ tick
  \/ timeout

Spec == Init /\ [][Next]_vars

\* ================================================================ claims
LexLeq(s1, i1, s2, i2) == s1 < s2 \/ (s1 = s2 /\ i1 <= i2)

positionUnchanged ==
  /\ currentSlideIndex' = currentSlideIndex
  /\ currentSequenceIndex' = currentSequenceIndex

\* The handlers of the trainee's interaction events: hotspot click, dropdown
\* select, text-field key, chat-message submit.
interaction ==
  \/ handleHotspotClick
  \/ handleDropdownSelect
  \/ handleTextInputSubmit
  \/ handleSubmitMessage

\* Callbacks armed by an interaction event (not by processItem).
InteractionKinds == {"checkbox", "dropdown", "submit"}

\* C1 (P1, monotonic progress): no step other than handleRestartSim lowers
\* (currentSlideIndex, currentSequenceIndex) in lexicographic order.
C1_MonotonicProgress ==
  [][handleRestartSim
     \/ LexLeq(currentSlideIndex, currentSequenceIndex,
               currentSlideIndex', currentSequenceIndex')]_vars

\* A session that has advanced to the second item of the second slide.
C1_Witness ==
  /\ Status = "Playing"
  /\ currentSlideIndex = 1
  /\ currentSequenceIndex = 1
  /\ hasItemAt(simulationData, currentSlideIndex, currentSequenceIndex)

\* C2 (P2, re-entrancy): the interaction events delivered for one item move
\* the sequence forward by one step only: a callback armed by an interaction
\* on item X does not move the position once the position is past X.
C2_OneStepPerItem ==
  [][\A i \in 1..Len(timeouts) :
       (/\ runTimeout(i)
        /\ timeouts[i].kind \in InteractionKinds
        /\ ~LexLeq(currentSlideIndex, currentSequenceIndex,
                   timeouts[i].slide, timeouts[i].seq))
       => positionUnchanged]_vars

\* C3 (P4, idempotent end): a handleEndChat call made while an end request is
\* outstanding changes nothing, and there is never more than one end request
\* outstanding (so at most one response stores a result).
C3_IdempotentEnd ==
  [][/\ Len(endReqs') <= 1
     /\ (endReqs # <<>> /\ handleEndChat) => UNCHANGED vars]_vars

\* The End button is on screen while an end request is outstanding.
C3_Witness ==
  /\ Len(endReqs) = 1
  /\ isEndingChat
  /\ mainShown /\ ~pauseOverlay

\* C4 (P3, timer pause correctness): elapsedTime changes only by a step taken
\* in status Playing, which adds 1 (so it is frozen while Paused and counts
\* the ticks of the Playing intervals only); handleRestartSim zeroes it.
C4_ElapsedCountsPlaying ==
  [][elapsedTime' # elapsedTime
     => \/ Status = "Playing" /\ elapsedTime' = elapsedTime + 1
        \/ handleRestartSim]_vars

\* C5 (I3): a tick adds exactly 1 to elapsedTime in status Playing and leaves
\* it unchanged in every other status.
C5_TickOnlyWhenPlaying ==
  [][tick => IF Status = "Playing"
             THEN elapsedTime' = elapsedTime + 1
             ELSE elapsedTime' = elapsedTime]_vars

\* C6 (I2, event dropping): an interaction event received while isProcessing
\* is true or the status is not Playing changes nothing of the component's
\* state and arms no callback.
C6_EventsDropped ==
  [][(interaction /\ (isProcessing \/ Status # "Playing")) => UNCHANGED comp]_vars

\* C7 (pause suspends auto-advance): no step taken in status Paused that
\* leaves the status Paused changes the position.
C7_PausedPositionFrozen ==
  [][(Status = "Paused" /\ Status' = "Paused") => positionUnchanged]_vars

\* C8 (end-failure semantics): after a failed end request the status is
\* Playing or Paused and no result is stored.
C8_EndFailureKeepsSession ==
  [][endFailed => (Status' \in {"Playing", "Paused"} /\ ~scores'.set)]_vars

\* C9 (start-failure semantics): a failed start leaves the status Errored with
\* the failure recorded in callStatus, the status is never Playing while the
\* start request is outstanding, and Start can be pressed again.
C9_StartFailureErrored ==
  [][/\ startReqs > 0 => Status # "Playing"
     /\ startFailed => /\ Status' = "Errored"
                       /\ callStatus' = "Error"
                       /\ startShown' /\ ~isStarting' /\ userId']_vars

\* C10 (I1, current item exists): in status Playing or Paused the position
\* names an existing item of an existing slide.
C10_CurrentItemExists ==
  Status \in {"Playing", "Paused"}
    => hasItemAt(simulationData, currentSlideIndex, currentSequenceIndex)

\* C11 (I1, component-wise monotonicity), as stated: no step other than
\* handleRestartSim lowers currentSlideIndex, and none lowers
\* currentSequenceIndex.
C11_ComponentwiseMonotonic ==
  [][handleRestartSim
     \/ (/\ currentSlideIndex' >= currentSlideIndex
         /\ currentSequenceIndex' >= currentSequenceIndex)]_vars

\* C11 as amended: no step other than handleRestartSim lowers
\* currentSlideIndex, and currentSequenceIndex is lowered only by the move to
\* the next slide, which sets it to 0.
C11_MonotonicWithinSlide ==
  [][handleRestartSim
     \/ (/\ currentSlideIndex' >= currentSlideIndex
         /\ currentSequenceIndex' < currentSequenceIndex
              => (/\ currentSlideIndex' = currentSlideIndex + 1
                  /\ currentSequenceIndex' = 0))]_vars

\* The session has moved from the last item of the first slide to the first
\* item of the second slide.
C11_Witness ==
  /\ Status = "Playing"
  /\ currentSlideIndex = 1
  /\ currentSequenceIndex = 0
  /\ Len(currentSequenceOf(simulationData, 0)) = 2
  /\ imageLoaded

\* A checkbox callback armed for the current position has not run yet.
checkboxPending ==
  \E i \in 1..Len(timeouts) :
    /\ timeouts[i].kind = "checkbox"
    /\ timeouts[i].slide = currentSlideIndex
    /\ timeouts[i].seq = currentSequenceIndex

\* C12 (Scenario C): the first click on the current checkbox marks it checked
\* and arms one advance; a click on the same checkbox while that advance is
\* still pending changes nothing, and the pending advance moves the position
\* by one item from the checkbox.
C12_CheckboxAdvancesOnce ==
  [][/\ (handleHotspotClick
          /\ hotspotTypeOf(currentItemOf(Cur)) = "checkbox"
          /\ ~isProcessing)
        => IF checkboxPending
           THEN UNCHANGED comp
           ELSE checkboxChecked' /\ Len(timeouts') = Len(timeouts) + 1
     /\ \A i \in 1..Len(timeouts) :
          (runTimeout(i) /\ timeouts[i].kind = "checkbox")
            => /\ currentSlideIndex = timeouts[i].slide
               /\ currentSequenceIndex = timeouts[i].seq
               /\ ~positionUnchanged]_vars

isCustomerMessage(item) ==
  item.type = "message" /\ item.role \in {"Customer", "customer"}

isTraineeMessage(item) ==
  item.type = "message" /\ item.role \notin {"Customer", "customer"}

\* A Submit event: handleSubmitMessage called by the chat input or by the
\* Use Suggested Response callback, or the delayed advance a submit armed.
submitEvent ==
  \/ handleSubmitMessage
  \/ \E i \in 1..Len(timeouts) :
       runTimeout(i) /\ timeouts[i].kind \in {"suggested", "submit"}

atDropdown ==
  /\ currentItemOf(Cur).type = "hotspot"
  /\ hotspotTypeOf(currentItemOf(Cur)) = "dropdown"

\* One advance: to the next item of the slide or to the first of the next.
movedOneItem ==
  \/ /\ currentSlideIndex' = currentSlideIndex
     /\ currentSequenceIndex' = currentSequenceIndex + 1
  \/ /\ currentSlideIndex' = currentSlideIndex + 1
     /\ currentSequenceIndex' = 0

\* C14 (Scenario B): on a dropdown whose advanceOnSelect is false a Select
\* records the option, leaves the position unchanged and arms no advance, and
\* no step other than handleRestartSim moves the position while that dropdown
\* is the current item; on a dropdown whose advanceOnSelect is true a Select
\* records the option and arms one advance, which moves the position by one
\* item when it runs at that dropdown.
C14_SelectAdvancesOnlyIfConfigured ==
  [][/\ (handleDropdownSelect /\ ~currentItemOf(Cur).advanceOnSelect)
        => /\ dropdownValue' \in Options
           /\ ~dropdownOpen'
           /\ positionUnchanged
           /\ timeouts' = timeouts
     /\ (atDropdown /\ ~currentItemOf(Cur).advanceOnSelect /\ ~handleRestartSim)
        => positionUnchanged
     /\ (handleDropdownSelect /\ currentItemOf(Cur).advanceOnSelect)
        => /\ dropdownValue' \in Options
           /\ positionUnchanged
           /\ Len(timeouts') = Len(timeouts) + 1
           /\ SubSeq(timeouts', 1, Len(timeouts)) = timeouts
           /\ timeouts'[Len(timeouts')].kind = "dropdown"
     /\ \A i \in 1..Len(timeouts) :
          (/\ runTimeout(i)
           /\ timeouts[i].kind = "dropdown"
           /\ timeouts[i].slide = currentSlideIndex
           /\ timeouts[i].seq = currentSequenceIndex)
          => movedOneItem]_vars

\* An option has been selected on a dropdown whose advanceOnSelect is false
\* and which is followed by another item.
C14_Witness ==
  /\ Status = "Playing"
  /\ atDropdown
  /\ ~currentItemOf(Cur).advanceOnSelect
  /\ dropdownValue \in Options
  /\ hasItemAt(simulationData, currentSlideIndex, currentSequenceIndex + 1)

\* The position names the last item of the last slide.
atLastItem ==
  /\ hasItemAt(simulationData, currentSlideIndex, currentSequenceIndex)
  /\ currentSequenceIndex = Len(currentSequenceOf(simulationData, currentSlideIndex)) - 1
  /\ currentSlideIndex = Len(slidesDataOf(simulationData)) - 1

\* The step calls moveToNextItem for the current item: an accepted click on a
\* button, highlight or coaching hotspot, Enter in the text field, or a
\* callback that was armed at the current position.
advanceAttempt ==
  \/ /\ handleHotspotClick
     /\ ~isProcessing
     /\ hotspotTypeOf(currentItemOf(Cur)) \in {"button", "highlight", "coaching", "coachingtip"}
  \/ handleTextInputSubmit /\ comp' # comp
  \/ \E i \in 1..Len(timeouts) :
       /\ runTimeout(i)
       /\ timeouts[i].kind \in {"message", "hotspotTimeout", "checkbox", "dropdown", "submit"}
       /\ timeouts[i].slide = currentSlideIndex
       /\ timeouts[i].seq = currentSequenceIndex
       /\ timeouts[i].data = simulationData

C16_PassBoundary ==
  /\ isPassed <=> (scores.set /\ scores.SimAccuracy >= 85000)
  /\ (scores.set /\ scores.SimAccuracy = 85000) => isPassed
  /\ (scores.set /\ scores.SimAccuracy = 84999) => ~isPassed
  /\ ~scores.set => ~isPassed

\* The completion screen shows a result of exactly 85 whose other score is
\* below the threshold.
C16_Witness ==
  /\ Status = "Completed"
  /\ scores.set
  /\ scores.SimAccuracy = 85000
  /\ scores.Confidence < 85000
  /\ isPassed

\* The transient per-hotspot interaction state is as at construction.
pendingInteractionEmpty ==
  /\ ~dropdownOpen
  /\ dropdownValue = ""
  /\ ~checkboxChecked
  /\ textInputValue = ""
  /\ ~showCoachingTip

\* C17 (restart): handleRestartSim is taken only in status Completed, and
\* after it the playback state is the initial one: status NotStarted,
\* position (0, 0), elapsedTime 0, not waiting for input, not processing, not
\* paused, no interaction state left, and no scores.
C17_RestartResetsAll ==
  [][handleRestartSim
       => /\ Status = "Completed"
          /\ Status' = "NotStarted"
          /\ currentSlideIndex' = 0
          /\ currentSequenceIndex' = 0
          /\ elapsedTime' = 0
          /\ ~waitingForUserInput'
          /\ ~isProcessing'
          /\ ~isPaused'
          /\ pendingInteractionEmpty'
          /\ ~scores'.set]_vars

\* A timeout callback is armed last, for the position of the next state.
timeoutArmedForNext ==
  /\ timeouts' # <<>>
  /\ timeouts'[Len(timeouts')].kind = "hotspotTimeout"
  /\ timeouts'[Len(timeouts')].slide = currentSlideIndex'
  /\ timeouts'[Len(timeouts')].seq = currentSequenceIndex'
  /\ \/ Len(timeouts') > Len(timeouts)
     \/ timeout /\ Len(timeouts') = Len(timeouts)

\* The step has processed the hotspot that is current after it: the effect
\* has turned highlightHotspot on (the reset effect turns it off on entry).
hotspotProcessed ==
  /\ itemAt(simulationData', currentSlideIndex', currentSequenceIndex').type = "hotspot"
  /\ highlightHotspot'
  /\ ~highlightHotspot \/ ~positionUnchanged

AdvanceKinds == {"message", "hotspotTimeout", "checkbox", "dropdown", "submit"}

\* C19 (stale events): a delayed advance armed for item X moves the position
\* only from X, and then to the item after X; run when X is no longer the
\* current item it leaves the position alone.
C19_StaleAdvanceIgnored ==
  [][\A i \in 1..Len(timeouts) :
       (runTimeout(i) /\ timeouts[i].kind \in AdvanceKinds)
       => IF /\ timeouts[i].slide = currentSlideIndex
             /\ timeouts[i].seq = currentSequenceIndex
          THEN movedOneItem \/ positionUnchanged
          ELSE positionUnchanged]_vars

\* The simulation held after a start response is malformed: none, no slide,
\* or a slide without items.
malformed(dataLoaded) ==
  \/ ~dataLoaded
  \/ slidesDataOf(dataLoaded) = <<>>
  \/ \E k \in 1..Len(slidesDataOf(dataLoaded)) : slidesDataOf(dataLoaded)[k] = <<>>

\* C20 (malformed sequence): a start response that leaves the engine without
\* a simulation, with an empty slide list or with a slide without items puts
\* the status to Errored, and no start response leaves the status Playing
\* with no current item.
C20_MalformedStartIsError ==
  [][startSucceeded
       => /\ malformed(simulationData') => Status' = "Errored"
          /\ Status' = "Playing"
               => hasItemAt(simulationData', currentSlideIndex', currentSequenceIndex')]_vars

\* The armed callbacks that will call moveToNextItem.
pendingAdvances == { i \in 1..Len(timeouts) : timeouts[i].kind \in AdvanceKinds }

\* C21 (at most one advance in flight): at most one armed callback that
\* advances the position is pending, message delays, hotspot timeouts,
\* checkbox, dropdown-select and message-submit delays counted together.
C21_OneAdvanceInFlight ==
  Cardinality(pendingAdvances) <= 1

\* The reference function next: the position after (slideIndex, itemIndex),
\* the same position at the end of the sequence.
nextPosition(dataLoaded, slideIndex, sequenceIndex) ==
  IF sequenceIndex < Len(currentSequenceOf(dataLoaded, slideIndex)) - 1
  THEN <<slideIndex, sequenceIndex + 1>>
  ELSE IF slideIndex < Len(slidesDataOf(dataLoaded)) - 1
       THEN <<slideIndex + 1, 0>>
       ELSE <<slideIndex, sequenceIndex>>

\* The step calls moveToNextItem: an accepted click on a button, highlight or
\* coaching hotspot, Enter in the text field, or an armed advance running.
advanceExecuted ==
  \/ /\ handleHotspotClick
     /\ ~isProcessing
     /\ hotspotTypeOf(currentItemOf(Cur)) \in {"button", "highlight", "coaching", "coachingtip"}
  \/ handleTextInputSubmit /\ comp' # comp
  \/ \E i \in 1..Len(timeouts) :
       runTimeout(i) /\ timeouts[i].kind \in AdvanceKinds

\* C22 (next is the reference function): every executed advance takes the
\* position to nextPosition of the position it is executed at: the next item
\* of the slide, else the first item of the next slide, else no change; never
\* an earlier slide or item.
C22_NextIsReference ==
  [][advanceExecuted
       => <<currentSlideIndex', currentSequenceIndex'>>
            = nextPosition(simulationData, currentSlideIndex, currentSequenceIndex)]_vars

\* C23: a successful end stops the clock, makes the status Completed and
\* stores the returned scores and duration, and afterwards nothing but
\* Restart changes the stored result: the end response either stores a
\* result of the gateway and shows the completion screen or (a response
\* without scores) stores nothing; while the completion screen stays up no
\* second is counted; and once scores are stored, scores and duration change
\* only in handleRestartSim.
C23_SuccessfulEndStored ==
  [][ /\ endSucceeded =>
           \/ /\ Status' = "Completed"
              /\ \E data \in EndResults :
                   /\ scores' = [set |-> TRUE, SimAccuracy |-> data.SimAccuracy,
                                 Confidence |-> data.Confidence]
                   /\ duration' = IF data.duration # 0 THEN data.duration
                                  ELSE Head(endReqs).elapsedTime
           \/ UNCHANGED <<scores, duration, showCompletionScreen>>
      /\ (showCompletionScreen /\ showCompletionScreen')
           => elapsedTime' = elapsedTime
      /\ (scores.set /\ ~handleRestartSim)
           => (scores' = scores /\ duration' = duration) ]_vars

\* C24: End is valid only from Playing or Paused: pressed in any other
\* status (Loading, before the start response has arrived, is the one in
\* which the End button is on screen) it leaves every cell of the component
\* unchanged, the interval included, and sends no end request.
C24_EndOnlyFromPlayingOrPaused ==
  [][ (handleEndChat /\ Status \notin {"Playing", "Paused"})
        => UNCHANGED <<comp, endReqs>> ]_vars

\* C25: every session starts at the beginning: when the start response makes
\* the status Playing, the position is (0,0) and elapsedTime is 0.
C25_StartAtBeginning ==
  [][ (startSucceeded /\ Status # "Playing" /\ Status' = "Playing")
        => /\ currentSlideIndex' = 0 /\ currentSequenceIndex' = 0
           /\ elapsedTime' = 0 ]_vars

\* C26: Completed is reached only through a successful End: the only step
\* that brings up the completion screen, or that changes the stored scores
\* to a result or the stored duration, is the arrival of an end response; no
\* click, selection, keystroke, submit, callback, clock tick or advance at
\* the end of content does.
C26_CompletedOnlyByEnd ==
  [][ ( \/ (Status' = "Completed" /\ Status # "Completed")
        \/ (scores' # scores /\ scores'.set)
        \/ duration' # duration )
        => endSucceeded ]_vars

\* The end of content was reached and signalled while the session goes on:
\* the status is still Playing and no result is stored.
C26_Witness ==
  /\ console = "Simulation complete"
  /\ atLastItem
  /\ Status = "Playing"
  /\ ~scores.set

\* C27: while the status is Playing, a click on the current hotspot moves
\* the position to the next one within the step of the click when the
\* hotspot is a button, a highlight or a coaching tip, whatever its settings
\* are (a configured timeout included): wherever such a hotspot is on
\* screen, no click on it can leave the position anywhere but at the next
\* position.
C27_ClickAdvancesNow ==
  ( /\ hotspotShown
    /\ Status = "Playing"
    /\ hotspotTypeOf(currentItemOf(Cur))
         \in {"button", "highlight", "coaching", "coachingtip"} )
  => ~ENABLED ( /\ handleHotspotClick
                /\ <<currentSlideIndex', currentSequenceIndex'>>
                     # nextPosition(simulationData, currentSlideIndex,
                                    currentSequenceIndex) )

atTextField ==
  /\ hotspotShown
  /\ hotspotTypeOf(currentItemOf(Cur)) = "textfield"

\* C29: at a text-field hotspot a click never advances, the commit keystroke
\* (Enter) advances by exactly one step whatever the field contains, and any
\* other keystroke leaves the position unchanged: a key step leaves the
\* position where it was or at the next position, never anywhere else; with
\* an item after the field, whatever the content, a key step that moves to
\* the next position is possible; and while Playing the position moves away
\* from a text field only in a key step or when an armed callback runs.
C29_TextFieldSubmitAdvances ==
  /\ [](atTextField =>
          /\ ~ENABLED ( /\ handleTextInputSubmit
                        /\ ~positionUnchanged
                        /\ <<currentSlideIndex', currentSequenceIndex'>>
                             # nextPosition(simulationData, currentSlideIndex,
                                            currentSequenceIndex) )
          /\ ~atLastItem =>
               ENABLED ( /\ handleTextInputSubmit
                         /\ ~positionUnchanged
                         /\ <<currentSlideIndex', currentSequenceIndex'>>
                              = nextPosition(simulationData, currentSlideIndex,
                                             currentSequenceIndex) ))
  /\ [][ (atTextField /\ Status = "Playing" /\ ~positionUnchanged)
           => (handleTextInputSubmit \/ timeout) ]_vars

\* Enter in an empty text field has advanced to the item after it: the
\* field's own timeout callback, armed at (0,0), is still pending, so the
\* move to (0,1) was made by the keystroke.
C29_Witness ==
  /\ starts = 1 /\ Status = "Playing"
  /\ itemAt(simulationData, 0, 0) = TextFieldT
  /\ <<currentSlideIndex, currentSequenceIndex>> = <<0, 1>>
  /\ textInputValue = ""
  /\ Len(timeouts) = 1
  /\ timeouts[1].kind = "hotspotTimeout"
  /\ <<timeouts[1].slide, timeouts[1].seq>> = <<0, 0>>

\* The delayed advances armed by accepted submits and not yet run.
pendingSubmits == { i \in 1..Len(timeouts) : timeouts[i].kind = "submit" }

\* handleSubmitMessage is called: by the chat input, or by the callback of
\* Use Suggested Response.
submitCall ==
  \/ handleSubmitMessage
  \/ \E i \in 1..Len(timeouts) : runTimeout(i) /\ timeouts[i].kind = "suggested"

\* C30: while a trainee message is current and the status is Playing the
\* position moves only when the advance armed by an accepted submit runs; a
\* submit with empty (blank) text, or made while waitingForUserInput is
\* false, changes neither the message shown, the input, the waiting flag nor
\* the position and arms no advance; and at most one advance armed by a
\* submit is pending, so that one trainee message is answered by one advance.
C30_TraineeSubmit ==
  /\ [][ (isTraineeMessage(currentItemOf(Cur)) /\ Status = "Playing"
          /\ ~positionUnchanged)
           => \E i \in 1..Len(timeouts) :
                runTimeout(i) /\ timeouts[i].kind = "submit" ]_vars
  /\ [][ (submitCall /\ (trim(userInput) = "" \/ ~waitingForUserInput))
           => /\ positionUnchanged
              /\ UNCHANGED <<currentMessage, userInput, waitingForUserInput>>
              /\ Cardinality({ i \in 1..Len(timeouts') : timeouts'[i].kind = "submit" })
                   = Cardinality(pendingSubmits) ]_vars
  /\ [](Cardinality(pendingSubmits) <= 1)

\* C31: every step that makes a different item current resets the per-item
\* interaction state before the new item is evaluated: after a step that
\* changes the position to one that holds an item, the dropdown is closed
\* and has no selected value, the checkbox is unchecked, the text field is
\* empty, and waitingForUserInput and the expected response are set only if
\* the new item is a trainee message (set by its own evaluation).
C31_ItemEntryReset ==
  [][ (~positionUnchanged
       /\ hasItemAt(simulationData', currentSlideIndex', currentSequenceIndex'))
        => LET item == itemAt(simulationData', currentSlideIndex',
                              currentSequenceIndex')
           IN /\ ~dropdownOpen' /\ dropdownValue' = ""
              /\ ~checkboxChecked'
              /\ textInputValue' = ""
              /\ waitingForUserInput' => isTraineeMessage(item)
              /\ expectedTraineeResponse' # "" => isTraineeMessage(item) ]_vars

\* The text field of slide 1 is current and the session is still the first:
\* it was reached through a checked checkbox and a dropdown selection with
\* advanceOnSelect, and neither the check nor the selected value is left.
C31_Witness ==
  /\ starts = 1 /\ Status = "Playing"
  /\ itemAt(simulationData, 0, 0) = CheckboxT
  /\ itemAt(simulationData, 0, 1) = DropdownAdv
  /\ <<currentSlideIndex, currentSequenceIndex>> = <<1, 0>>
  /\ ~checkboxChecked /\ dropdownValue = "" /\ ~dropdownOpen

\* C32: whenever the current item is a coaching-tip hotspot and the status is
\* Playing, showCoachingTip is true, at every position of the item, (0,0)
\* included.
C32_CoachingTipShown ==
  (isCoachingTip(currentItemOf(Cur)) /\ Status = "Playing") => showCoachingTip

\* The item is advanced past without trainee action: a customer message or a
\* hotspot whose timeout is armed.
autoAdvanced(item) ==
  \/ isCustomerMessage(item)
  \/ item.type = "hotspot" /\ timeoutEligible(item)

\* The auto-advance callbacks pending after the step that were armed for the
\* position of the state before it.
armedForCurrent ==
  { i \in 1..Len(timeouts') :
      /\ timeouts'[i].kind \in {"message", "hotspotTimeout"}
      /\ timeouts'[i].slide = currentSlideIndex
      /\ timeouts'[i].seq = currentSequenceIndex }

\* C33: a resume (togglePause while paused) that leaves the status Playing
\* with the slide image loaded re-arms the current item: for a customer
\* message or a timeout-eligible hotspot exactly one auto-advance callback
\* armed for the current position is pending after it, so that the item is
\* advanced past once without trainee action, and for a trainee message
\* waitingForUserInput is true after it.
C33_ResumeRearms ==
  [][ (togglePause /\ isPaused /\ Status' = "Playing" /\ imageLoaded)
        => /\ autoAdvanced(currentItemOf(Cur)) => Cardinality(armedForCurrent) = 1
           /\ isTraineeMessage(currentItemOf(Cur)) => waitingForUserInput' ]_vars

\* The installed intervals whose callback counts seconds (its render was
\* started and not paused).
activeSources ==
  { i \in 1..Len(intervals) : intervals[i].isStarted /\ ~intervals[i].isPaused }

C35_AssetsReleased ==
  (Status \in {"NotStarted", "Completed", "Errored"}) => slides = {}

\* C36: Use Suggested Response at a trainee message that waits for input
\* submits the suggested text and advances one step, whatever the chat input
\* held when the button was clicked: when the callback the button armed runs
\* while the engine still waits at that message, the trainee message is
\* shown, waiting ends and exactly one delayed advance is armed.
C36_SuggestedResponseSubmits ==
  [][ \A i \in 1..Len(timeouts) :
        ( /\ runTimeout(i)
          /\ timeouts[i].kind = "suggested"
          /\ waitingForUserInput
          /\ isTraineeMessage(currentItemOf(Cur))
          /\ <<timeouts[i].slide, timeouts[i].seq>>
               = <<currentSlideIndex, currentSequenceIndex>>
          /\ pendingSubmits = {} )
        => /\ currentMessage' = "trainee"
           /\ ~waitingForUserInput'
           /\ Cardinality({ j \in 1..Len(timeouts') : timeouts'[j].kind = "submit" }) = 1
    ]_vars

\* C37: waitingForUserInput is true only while the status is Playing or
\* Paused and the current item is a trainee message.
C37_AwaitingOnlyAtTrainee ==
  waitingForUserInput
    => /\ Status \in {"Playing", "Paused"}
       /\ isTraineeMessage(currentItemOf(Cur))

\* C38: no advance after the session has ended: from the acceptance of End,
\* through the completion screen and a Restart, no armed callback changes
\* the position; while the status is NotStarted, Completed or Errored the
\* position changes only in handleRestartSim, which sets it to (0,0).
C38_NoAdvanceAfterEnd ==
  [][ (Status \in {"NotStarted", "Completed", "Errored"})
        => \/ positionUnchanged
           \/ handleRestartSim /\ currentSlideIndex' = 0
                               /\ currentSequenceIndex' = 0 ]_vars

\* Timer expiries are not postponed for ever.
FairSpec == Spec /\ WF_vars(timeout)

\* An auto-advance callback (message delay or hotspot timeout) is pending
\* that was armed at the last item of the last slide, after that item had
\* already been advanced from once ("Simulation complete" was logged).
rearmedAtEnd ==
  /\ console = "Simulation complete"
  /\ \E i \in 1..Len(timeouts) :
       /\ timeouts[i].kind \in {"message", "hotspotTimeout"}
       /\ timeouts[i].data
       /\ timeouts[i].slide = Len(sim) - 1
       /\ timeouts[i].seq = Len(sim[Len(sim)]) - 1

\* C39: the end of content is quiescent: once the last item of the last
\* slide has been processed and advanced from, the engine eventually stops
\* arming auto-advances for it: from some point on no such callback is
\* pending.
C39_EndQuiescent == <>[]~rearmedAtEnd

\* A trainee event: click, selection, keystroke, typing, submit, suggested
\* response.
traineeEvent ==
  \/ handleHotspotClick \/ handleDropdownSelect \/ closeDropdown
  \/ changeTextInput \/ handleTextInputSubmit
  \/ changeUserInput \/ handleSubmitMessage \/ useSuggestedResponse

\* An advance is under way: a callback that will call moveToNextItem is
\* pending.
advancePending == pendingAdvances # {}

\* An advance can be brought about by at most one, two, three trainee events
\* or timer expiries: it is under way, or some such event changes the
\* position or leads to a state where it is nearer.
advanceInOne ==
  \/ advancePending
  \/ ENABLED ((traineeEvent \/ timeout) /\ (~positionUnchanged \/ advancePending'))

advanceInTwo ==
  \/ advanceInOne
  \/ ENABLED ((traineeEvent \/ timeout) /\ advanceInOne')

advanceInThree ==
  \/ advanceInTwo
  \/ ENABLED ((traineeEvent \/ timeout) /\ advanceInTwo')

\* C40: no dead item: in every Playing state whose current item is on
\* screen (its slide image loaded) and is not the last item of the last
\* slide, trainee events and timer expiries can bring about an advance (three
\* of them are enough for every kind of item: open the dropdown, select, the
\* delay expires; type, submit, the delay expires).  States in which an end
\* request is outstanding are left out: there the session is being ended.
C40_NoDeadItem ==
  ( /\ Status = "Playing" /\ ~isEndingChat
    /\ imgShown /\ imageLoaded
    /\ currentItemOf(Cur) # NoItem
    /\ ~atLastItem )
  => advanceInThree
====
